---- MODULE Spec2Model ----
(***************************************************************************)
(* Model of LearnPoem (src/app.py): the text-comparison helpers            *)
(* (normalize, similarity_score, build_diff_html, score_to_grade) and the  *)
(* memorization routes (start_session, verse_page, report).                *)
(*                                                                         *)
(* Text is a sequence of characters; a character is a one-element string,  *)
(* or a name for the characters that have no ASCII spelling:               *)
(*   "TAB" = U+0009, "WASLA" = U+0671, "ALIF" = U+0627, "FATHATAN" = U+064B *)
(* A float ratio is kept exact as a fraction [num, den] in lowest terms.   *)
(* A percentage is an integer number of thousandths of a percent.          *)
(***************************************************************************)
EXTENDS Integers, Sequences, FiniteSets, TLC

VARIABLES
    expected,       \* similarity_score / build_diff_html argument
    user_input,     \* similarity_score / build_diff_html argument
    sim,            \* value returned by similarity_score
    opcodes,        \* build_diff_html: the opcodes its loop runs over
    parts,          \* build_diff_html: the list `parts` before the join
    diff_html,      \* value returned by build_diff_html
    tphase,         \* "input" before the call, "scored" after it
    score,          \* score_to_grade argument (thousandths of a percent)
    graded,         \* outcome of the score_to_grade call
    session,        \* the client's Flask session (signed cookie)
    memorization_sessions,  \* table memorization_sessions, row id = index
    verse_attempts,         \* table verse_attempts, row id = index
    request,        \* the request handled last
    response        \* the response to it

vars == <<expected, user_input, sim, opcodes, parts, diff_html, tphase, score, graded,
          session, memorization_sessions, verse_attempts, request, response>>

textVars == <<expected, user_input, sim, opcodes, parts, diff_html, tphase>>
gradeVars == <<score, graded>>
webVars == <<session, memorization_sessions, verse_attempts, request, response>>

NULL == "NULL"

\* ------------------------------------------------------------------ bounds
MaxTokens == 3
MaxChars == 2
Margin == 3
MaxSessions == 2
MaxAttempts == 3

\* ------------------------------------------------------- generic helpers
RECURSIVE GCD(_, _)
GCD(m, n) == IF n = 0 THEN m ELSE GCD(n, m % n)

Frac(n, d) == LET g == GCD(n, d) IN [num |-> n \div g, den |-> d \div g]
One == [num |-> 1, den |-> 1]
FracLT(x, y) == x.num * y.den < y.num * x.den
FracLE(x, y) == x.num * y.den <= y.num * x.den

\* ----------------------------------------------------- str methods and re
IsSpace(c) == c \in {" ", "TAB"}

RECURSIVE lstrip(_)
lstrip(text) ==
    IF text # <<>> /\ IsSpace(Head(text)) THEN lstrip(Tail(text)) ELSE text

RECURSIVE rstrip(_)
rstrip(text) ==
    IF text # <<>> /\ IsSpace(text[Len(text)])
    THEN rstrip(SubSeq(text, 1, Len(text) - 1))
    ELSE text

strip(text) == rstrip(lstrip(text))

lower_char(c) == IF c = "A" THEN "a" ELSE c

lower(text) == [i \in 1..Len(text) |-> lower_char(text[i])]

\* str.split(): the maximal runs of non-whitespace characters
RECURSIVE split_from(_, _, _)
split_from(text, cur, acc) ==
    IF text = <<>>
    THEN IF cur = <<>> THEN acc ELSE Append(acc, cur)
    ELSE IF IsSpace(Head(text))
         THEN split_from(Tail(text), <<>>,
                         IF cur = <<>> THEN acc ELSE Append(acc, cur))
         ELSE split_from(Tail(text), Append(cur, Head(text)), acc)

split(text) == split_from(text, <<>>, <<>>)

\* " ".join(words)
RECURSIVE join(_)
join(words) ==
    IF words = <<>> THEN <<>>
    ELSE IF Len(words) = 1 THEN words[1]
    ELSE words[1] \o <<" ">> \o join(Tail(words))

\* --------------------------------------------------------- normalization
IsDiacritic(c) == c = "FATHATAN"

RECURSIVE normalize_arabic_text(_)
normalize_arabic_text(text) ==
    IF text = <<>> THEN <<>>
    ELSE LET c == Head(text)
             rest == normalize_arabic_text(Tail(text))
         IN IF c = "WASLA" THEN <<"ALIF">> \o rest
            ELSE IF IsDiacritic(c) THEN rest
            ELSE <<c>> \o rest

\* re.sub(r"\s+", " ", text)
RECURSIVE collapse_ws(_)
collapse_ws(text) ==
    IF text = <<>> THEN <<>>
    ELSE IF IsSpace(Head(text))
         THEN <<" ">> \o collapse_ws(lstrip(text))
         ELSE <<Head(text)>> \o collapse_ws(Tail(text))

normalize(text) == collapse_ws(normalize_arabic_text(strip(text)))

\* ------------------------------------- difflib.SequenceMatcher(None, a, b)
\* a and b are sequences of tokens; positions are Python's (from 0), so the
\* element at position i is a[i + 1].  isjunk is None and both sequences are
\* far below the 200 elements at which autojunk starts, so b2j holds every
\* element of b and no element is junk.

\* find_longest_match: newj2len[j] in row i, the length of the common run
\* that ends at a[i], b[j] and lies inside the window starting at alo, blo
RECURSIVE j2len(_, _, _, _, _, _)
j2len(a, b, alo, blo, i, j) ==
    IF a[i + 1] # b[j + 1] THEN 0
    ELSE IF i = alo \/ j = blo THEN 1
    ELSE 1 + j2len(a, b, alo, blo, i - 1, j - 1)

\* find_longest_match: `if k > bestsize`
better(k, bestsize) == k > bestsize

\* find_longest_match: the two nested loops, i ascending and j ascending,
\* carrying (besti, bestj, bestsize)
RECURSIVE flm_scan(_, _, _, _, _, _)
flm_scan(a, b, w, i, j, best) ==
    IF i >= w.ahi THEN best
    ELSE IF j >= w.bhi THEN flm_scan(a, b, w, i + 1, w.blo, best)
    ELSE LET k == j2len(a, b, w.alo, w.blo, i, j)
         IN flm_scan(a, b, w, i, j + 1,
                     IF better(k, best[3])
                     THEN <<i - k + 1, j - k + 1, k>>
                     ELSE best)

\* With no junk the block found is already maximal, so the extension loops
\* that follow the scan in difflib change nothing.
find_longest_match(a, b, alo, ahi, blo, bhi) ==
    flm_scan(a, b, [alo |-> alo, ahi |-> ahi, blo |-> blo, bhi |-> bhi],
             alo, blo, <<alo, blo, 0>>)

\* get_matching_blocks: the work list, popped from its end
RECURSIVE drain_queue(_, _, _, _)
drain_queue(a, b, queue, blocks) ==
    IF queue = <<>> THEN blocks
    ELSE LET w == queue[Len(queue)]
             rest == SubSeq(queue, 1, Len(queue) - 1)
             x == find_longest_match(a, b, w[1], w[2], w[3], w[4])
             i == x[1]
             j == x[2]
             k == x[3]
             left == IF w[1] < i /\ w[3] < j
                     THEN <<(<<w[1], i, w[3], j>>)>> ELSE <<>>
             right == IF i + k < w[2] /\ j + k < w[4]
                      THEN <<(<<i + k, w[2], j + k, w[4]>>)>> ELSE <<>>
         IN IF k # 0
            THEN drain_queue(a, b, rest \o left \o right, Append(blocks, x))
            ELSE drain_queue(a, b, rest, blocks)

\* tuple comparison of two (i, j, k) triples
triple_less(x, y) ==
    \/ x[1] < y[1]
    \/ x[1] = y[1] /\ x[2] < y[2]
    \/ x[1] = y[1] /\ x[2] = y[2] /\ x[3] < y[3]

RECURSIVE sort_insert(_, _)
sort_insert(sorted, x) ==
    IF sorted = <<>> THEN <<x>>
    ELSE IF triple_less(x, Head(sorted)) THEN <<x>> \o sorted
    ELSE <<Head(sorted)>> \o sort_insert(Tail(sorted), x)

\* matching_blocks.sort()
RECURSIVE sort_blocks(_)
sort_blocks(blocks) ==
    IF blocks = <<>> THEN <<>>
    ELSE sort_insert(sort_blocks(SubSeq(blocks, 1, Len(blocks) - 1)),
                     blocks[Len(blocks)])

\* get_matching_blocks: adjacent blocks are merged; cur is (i1, j1, k1)
RECURSIVE collapse_adjacent(_, _, _)
collapse_adjacent(blocks, cur, non_adjacent) ==
    IF blocks = <<>>
    THEN IF cur[3] # 0 THEN Append(non_adjacent, cur) ELSE non_adjacent
    ELSE LET x == Head(blocks)
         IN IF cur[1] + cur[3] = x[1] /\ cur[2] + cur[3] = x[2]
            THEN collapse_adjacent(Tail(blocks),
                                   <<cur[1], cur[2], cur[3] + x[3]>>,
                                   non_adjacent)
            ELSE collapse_adjacent(Tail(blocks), x,
                                   IF cur[3] # 0
                                   THEN Append(non_adjacent, cur)
                                   ELSE non_adjacent)

get_matching_blocks_no_sentinel(a, b) ==
    collapse_adjacent(
        sort_blocks(drain_queue(a, b, <<(<<0, Len(a), 0, Len(b)>>)>>, <<>>)),
        <<0, 0, 0>>, <<>>)
get_matching_blocks(a, b) ==
    LET found == drain_queue(a, b, <<(<<0, Len(a), 0, Len(b)>>)>>, <<>>)
    IN Append(collapse_adjacent(sort_blocks(found), <<0, 0, 0>>, <<>>),
              <<Len(a), Len(b), 0>>)

\* get_opcodes: the loop over the matching blocks, carrying i and j
RECURSIVE opcodes_from(_, _, _, _)
opcodes_from(blocks, i, j, answer) ==
    IF blocks = <<>> THEN answer
    ELSE LET ai == Head(blocks)[1]
             bj == Head(blocks)[2]
             size == Head(blocks)[3]
             tag == IF i < ai /\ j < bj THEN "replace"
                    ELSE IF i < ai THEN "delete"
                    ELSE IF j < bj THEN "insert"
                    ELSE ""
             gap == IF tag # ""
                    THEN <<[tag |-> tag, i1 |-> i, i2 |-> ai,
                            j1 |-> j, j2 |-> bj]>>
                    ELSE <<>>
             eq == IF size # 0
                   THEN <<[tag |-> "equal", i1 |-> ai, i2 |-> ai + size,
                           j1 |-> bj, j2 |-> bj + size]>>
                   ELSE <<>>
         IN opcodes_from(Tail(blocks), ai + size, bj + size,
                         answer \o gap \o eq)

get_opcodes(a, b) == opcodes_from(get_matching_blocks(a, b), 0, 0, <<>>)

RECURSIVE sum_sizes(_)
sum_sizes(blocks) ==
    IF blocks = <<>> THEN 0 ELSE Head(blocks)[3] + sum_sizes(Tail(blocks))

\* _calculate_ratio(matches, length)
calculate_ratio_half(matches, length) ==
    IF length # 0 THEN Frac(matches, length) ELSE One
calculate_ratio(matches, length) ==
    IF length # 0 THEN Frac(2 * matches, length) ELSE One

\* SequenceMatcher.ratio
ratio(a, b) ==
    calculate_ratio(sum_sizes(get_matching_blocks(a, b)), Len(a) + Len(b))

\* ------------------------------------------------ text comparison helpers
similarity_score_no_guard(exp, inp) ==
    ratio(split(lower(normalize(exp))), split(lower(normalize(inp))))
similarity_score_guard_on_input(exp, inp) ==
    LET a == split(lower(normalize(exp)))
        b == split(lower(normalize(inp)))
    IN IF b = <<>> THEN One ELSE ratio(a, b)
similarity_score(exp, inp) ==
    LET a == split(lower(normalize(exp)))
        b == split(lower(normalize(inp)))
    IN IF a = <<>> THEN One ELSE ratio(a, b)

lower_words(ws) == [i \in 1..Len(ws) |-> lower(ws[i])]

\* a[i1:i2] as spans of one class
spans(cls, ws, lo, hi) ==
    [n \in 1..(hi - lo) |-> [cls |-> cls, w |-> ws[lo + n]]]

\* build_diff_html: the body of the loop for one opcode
opcode_parts_swapped(a, b, op) ==
    IF op.tag = "equal" THEN spans("diff-ok", a, op.i1, op.i2)
    ELSE IF op.tag = "replace"
         THEN spans("diff-extra", b, op.j1, op.j2)
              \o spans("diff-missing", a, op.i1, op.i2)
    ELSE IF op.tag = "delete" THEN spans("diff-missing", a, op.i1, op.i2)
    ELSE IF op.tag = "insert" THEN spans("diff-extra", b, op.j1, op.j2)
    ELSE <<>>
opcode_parts(a, b, op) ==
    IF op.tag = "equal" THEN spans("diff-ok", a, op.i1, op.i2)
    ELSE IF op.tag = "replace"
         THEN spans("diff-missing", a, op.i1, op.i2)
              \o spans("diff-extra", b, op.j1, op.j2)
    ELSE IF op.tag = "delete" THEN spans("diff-missing", a, op.i1, op.i2)
    ELSE IF op.tag = "insert" THEN spans("diff-extra", b, op.j1, op.j2)
    ELSE <<>>

RECURSIVE parts_from(_, _, _)
parts_from(a, b, ops) ==
    IF ops = <<>> THEN <<>>
    ELSE opcode_parts(a, b, Head(ops)) \o parts_from(a, b, Tail(ops))

\* the opcodes build_diff_html iterates over
diff_opcodes(exp, inp) ==
    get_opcodes(lower_words(split(normalize(exp))),
                lower_words(split(normalize(inp))))

\* build_diff_html: the list `parts` when the loop has ended
diff_parts(exp, inp) ==
    parts_from(split(normalize(exp)), split(normalize(inp)),
               diff_opcodes(exp, inp))

\* f'<span class="{cls}">{w}</span>': the tags are single symbols
open_tag(cls) ==
    IF cls = "diff-ok" THEN "<span class=diff-ok>"
    ELSE IF cls = "diff-missing" THEN "<span class=diff-missing>"
    ELSE "<span class=diff-extra>"

span_html(p) == <<open_tag(p.cls)>> \o p.w \o <<"</span>">>

build_diff_html(exp, inp) ==
    LET ps == diff_parts(exp, inp)
    IN join([n \in 1..Len(ps) |-> span_html(ps[n])])

\* ------------------------------------------------------------ text inputs
Words == {<<"a">>, <<"b">>, <<"c">>}
TokenSeqs == UNION {[1..n -> Words] : n \in 0..MaxTokens}
WordStrings == {join(ts) : ts \in TokenSeqs}

Alphabet == {"a", "A", " ", "TAB", "WASLA", "ALIF", "FATHATAN"}
CharStrings == UNION {[1..n -> Alphabet] : n \in 0..MaxChars}

QuickBrownFox ==
    <<"t", "h", "e", " ", "q", "u", "i", "c", "k", " ",
      "b", "r", "o", "w", "n", " ", "f", "o", "x">>
QuickRedFox ==
    <<"t", "h", "e", " ", "q", "u", "i", "c", "k", " ",
      "r", "e", "d", " ", "f", "o", "x">>

InputPairs ==
    (WordStrings \X WordStrings) \cup (CharStrings \X CharStrings)
    \cup {<<QuickBrownFox, QuickBrownFox>>, <<QuickBrownFox, QuickRedFox>>}

\* ------------------------------------------------------------- idle parts
TextIdle ==
    /\ expected = <<>>
    /\ user_input = <<>>
    /\ sim = NULL
    /\ opcodes = <<>>
    /\ parts = <<>>
    /\ diff_html = <<>>
    /\ tphase = "idle"

\* no call of score_to_grade made yet
NoGrade == [grade |-> "none", raised |-> FALSE, tested |-> 0]

GradeIdle ==
    /\ score = 0
    /\ graded = NoGrade

NoRequest == [handler |-> "none", method |-> "GET", next |-> FALSE]

\* a response: a redirect to a route or a rendered template, the message
\* flashed while handling the request, and the values handed to the
\* template; a value that may be missing is a set with at most one element
Resp(kind, target, flash) ==
    [kind |-> kind, target |-> target, flash |-> flash,
     verse_score |-> {}, avg_score |-> {}, grade |-> NULL, diffs |-> <<>>]

\* the Flask session is a function from the keys present to their values
NoSession == [k \in {} |-> 0]

WebIdle ==
    /\ session = NoSession
    /\ memorization_sessions = <<>>
    /\ verse_attempts = <<>>
    /\ request = NoRequest
    /\ response = Resp("none", "none", "none")

\* ------------------------------------- the comparison of one verse attempt
InitText ==
    /\ \E pair \in InputPairs :
          /\ expected = pair[1]
          /\ user_input = pair[2]
    /\ sim = NULL
    /\ opcodes = <<>>
    /\ parts = <<>>
    /\ diff_html = <<>>
    /\ tphase = "input"
    /\ GradeIdle
    /\ WebIdle

\* verse_page, lines 279 and 290: the two calls on one attempt
Compare ==
    /\ tphase = "input"
    /\ sim' = similarity_score(expected, user_input)
    /\ opcodes' = diff_opcodes(expected, user_input)
    /\ parts' = diff_parts(expected, user_input)
    /\ diff_html' = build_diff_html(expected, user_input)
    /\ tphase' = "scored"
    /\ UNCHANGED <<expected, user_input>>
    /\ UNCHANGED gradeVars
    /\ UNCHANGED webVars

NextText == Compare

Spec == InitText /\ [][NextText]_vars

\* ------------------------------------------------------------------ grades
\* A percentage is an integer number of thousandths of a percent, so that
\* 92.999 is 92999.  "A-", "B-" and "C-" stand for the source's grades
\* written with U+2212.
Pct(n) == n * 1000

score_to_grade_exclusive(s) ==
    IF s > Pct(97) THEN "A+"
    ELSE IF s > Pct(93) THEN "A"
    ELSE IF s > Pct(90) THEN "A-"
    ELSE IF s > Pct(87) THEN "B+"
    ELSE IF s > Pct(83) THEN "B"
    ELSE IF s > Pct(80) THEN "B-"
    ELSE IF s > Pct(77) THEN "C+"
    ELSE IF s > Pct(73) THEN "C"
    ELSE IF s > Pct(70) THEN "C-"
    ELSE IF s > Pct(60) THEN "D"
    ELSE "F"
score_to_grade(s) ==
    IF s >= Pct(97) THEN "A+"
    ELSE IF s >= Pct(93) THEN "A"
    ELSE IF s >= Pct(90) THEN "A-"
    ELSE IF s >= Pct(87) THEN "B+"
    ELSE IF s >= Pct(83) THEN "B"
    ELSE IF s >= Pct(80) THEN "B-"
    ELSE IF s >= Pct(77) THEN "C+"
    ELSE IF s >= Pct(73) THEN "C"
    ELSE IF s >= Pct(70) THEN "C-"
    ELSE IF s >= Pct(60) THEN "D"
    ELSE "F"

\* One call of score_to_grade: the grade returned, whether the call raised,
\* and the value the chain of comparisons tested (the argument itself: the
\* function has no statement that changes or rejects it).
score_to_grade_call(s) ==
    [grade |-> score_to_grade(s), raised |-> FALSE, tested |-> s]

\* whole percentages from -Margin to 100 + Margin, each also moved by one
\* thousandth and by one tenth in both directions
GradeInputs ==
    {Pct(n) + d : n \in (0 - Margin)..(100 + Margin),
                  d \in {0 - 100, 0 - 1, 0, 1, 100}}

InitGrade ==
    /\ score \in GradeInputs
    /\ graded = NoGrade
    /\ TextIdle
    /\ WebIdle

Grade ==
    /\ graded = NoGrade
    /\ graded' = score_to_grade_call(score)
    /\ UNCHANGED score
    /\ UNCHANGED textVars
    /\ UNCHANGED webVars

NextGrade == Grade

GradeSpec == InitGrade /\ [][NextGrade]_vars

\* --------------------------------------------------------------- database
\* The tables chapters and verses are read, never written.  Chapter 1 has
\* two verses, stored out of order; chapter 2 has none; no chapter 3 exists.
Chapters == {1, 2}
ChapterIds == {1, 2, 3}

Verses ==
    {[id |-> 1, chapter_id |-> 1, number |-> 2,
      content |-> <<"b", " ", "a">>],
     [id |-> 2, chapter_id |-> 1, number |-> 1,
      content |-> <<"a", " ", "b">>]}

\* SELECT * FROM verses WHERE chapter_id = ? ORDER BY number
verses_of(chapter_id) ==
    LET rows == {v \in Verses : v.chapter_id = chapter_id}
    IN CHOOSE sq \in [1..Cardinality(rows) -> rows] :
          /\ \A m, n \in DOMAIN sq : m < n => sq[m].number < sq[n].number

\* what the learner may type into the form
WebInputs == {<<>>, <<"a", " ", "b">>, <<"b">>}

\* ---------------------------------------------------------------- rounding
\* round(x, 0) of the fraction n / d, ties to even
round_half_even(n, d) ==
    LET q == n \div d
        r == n % d
    IN IF 2 * r < d THEN q
       ELSE IF 2 * r > d THEN q + 1
       ELSE IF q % 2 = 0 THEN q ELSE q + 1

\* round(sim * 100, 1), in tenths of a percent
score_pct(x) == round_half_even(x.num * 1000, x.den)

FracAdd(x, y) == Frac(x.num * y.den + y.num * x.den, x.den * y.den)

RECURSIVE sum_similarity(_)
sum_similarity(rows) ==
    IF rows = <<>> THEN [num |-> 0, den |-> 1]
    ELSE FracAdd(Head(rows).similarity, sum_similarity(Tail(rows)))

\* round(sum(a["similarity"] for a in attempts) / len(attempts) * 100, 1),
\* in tenths of a percent
avg_score_of(rows) ==
    LET t == sum_similarity(rows)
    IN round_half_even(t.num * 1000, t.den * Len(rows))

\* --------------------------------------------------------------- handlers
Has(key) == key \in DOMAIN session

Req(handler, method, next) ==
    [handler |-> handler, method |-> method, next |-> next]

\* login_required: the redirect of a client that is not logged in
PleaseLogIn ==
    /\ response' = Resp("redirect", "login", "Please log in first.")
    /\ UNCHANGED <<session, memorization_sessions, verse_attempts>>

InitWeb ==
    /\ WebIdle
    /\ TextIdle
    /\ GradeIdle

\* POST /login; ok: the user exists and the password hash matches
login(ok) ==
    /\ request' = Req("login", "POST", FALSE)
    /\ IF ok
       THEN /\ session' = ("user_id" :> 1 @@ "username" :> "learner")
            /\ response' = Resp("redirect", "index", "none")
       ELSE /\ session' = session
            /\ response' = Resp("render", "login.html",
                                "Invalid username or password.")
    /\ UNCHANGED <<memorization_sessions, verse_attempts>>
    /\ UNCHANGED textVars
    /\ UNCHANGED gradeVars

logout ==
    /\ request' = Req("logout", "GET", FALSE)
    /\ session' = NoSession
    /\ response' = Resp("redirect", "login", "Logged out.")
    /\ UNCHANGED <<memorization_sessions, verse_attempts>>
    /\ UNCHANGED textVars
    /\ UNCHANGED gradeVars

start_session(chapter_id) ==
    /\ request' = Req("start_session", "GET", FALSE)
    /\ IF ~Has("user_id") THEN PleaseLogIn
       ELSE IF chapter_id \notin Chapters
       THEN /\ response' = Resp("redirect", "index", "Chapter not found.")
            /\ UNCHANGED <<session, memorization_sessions, verse_attempts>>
       ELSE /\ Len(memorization_sessions) < MaxSessions
            /\ memorization_sessions' =
                  Append(memorization_sessions,
                         [user_id |-> session["user_id"],
                          chapter_id |-> chapter_id,
                          completed_at |-> NULL,
                          total_score |-> {},
                          grade |-> NULL])
            /\ session' = ("mem_session_id" :> Len(memorization_sessions) + 1
                           @@ "chapter_id" :> chapter_id
                           @@ "verse_index" :> 0
                           @@ session)
            /\ response' = Resp("redirect", "verse_page", "none")
            /\ UNCHANGED verse_attempts
    /\ UNCHANGED textVars
    /\ UNCHANGED gradeVars

\* the body of verse_page for a POST on the verse at idx
verse_page_post_always_advance(verses, idx, input, next) ==
    LET verse == verses[idx + 1]
        s == similarity_score(verse.content, input)
    IN /\ Len(verse_attempts) < MaxAttempts
       /\ verse_attempts' =
             Append(verse_attempts,
                    [session_id |-> session["mem_session_id"],
                     verse_id |-> verse.id,
                     user_input |-> input,
                     similarity |-> s])
       /\ session' = [session EXCEPT !["verse_index"] = idx + 1]
       /\ response' = Resp("redirect", "verse_page", "none")
       /\ UNCHANGED memorization_sessions
verse_page_post(verses, idx, input, next) ==
    LET verse == verses[idx + 1]
        s == similarity_score(verse.content, input)
    IN /\ Len(verse_attempts) < MaxAttempts
       /\ verse_attempts' =
             Append(verse_attempts,
                    [session_id |-> session["mem_session_id"],
                     verse_id |-> verse.id,
                     user_input |-> input,
                     similarity |-> s])
       /\ IF next
          THEN /\ session' = [session EXCEPT !["verse_index"] = idx + 1]
               /\ response' = Resp("redirect", "verse_page", "none")
          ELSE /\ session' = session
               /\ response' = [Resp("render", "verse.html", "none")
                               EXCEPT !.verse_score = {score_pct(s)}]
       /\ UNCHANGED memorization_sessions

verse_page(method, input, next) ==
    /\ request' = Req("verse_page", method, next)
    /\ IF ~Has("user_id") THEN PleaseLogIn
       ELSE IF ~Has("mem_session_id")
       THEN /\ response' = Resp("redirect", "index", "No active session.")
            /\ UNCHANGED <<session, memorization_sessions, verse_attempts>>
       ELSE LET verses == verses_of(session["chapter_id"])
                idx == session["verse_index"]
            IN IF idx >= Len(verses)
               THEN /\ response' = Resp("redirect", "report", "none")
                    /\ UNCHANGED <<session, memorization_sessions,
                                   verse_attempts>>
               ELSE IF method = "POST"
               THEN verse_page_post(verses, idx, input, next)
               ELSE /\ response' = Resp("render", "verse.html", "none")
                    /\ UNCHANGED <<session, memorization_sessions,
                                   verse_attempts>>
    /\ UNCHANGED textVars
    /\ UNCHANGED gradeVars

\* ... FROM verse_attempts va JOIN verses v ON v.id = va.verse_id: the
\* attempt with the content and the number of its verse; an attempt whose
\* verse does not exist joins with nothing
join_verse(va) ==
    LET v == CHOOSE v \in Verses : v.id = va.verse_id
    IN [session_id |-> va.session_id, verse_id |-> va.verse_id,
        user_input |-> va.user_input, similarity |-> va.similarity,
        expected |-> v.content, number |-> v.number]

RECURSIVE joined_rows(_, _)
joined_rows(rows, mem_sid) ==
    IF rows = <<>> THEN <<>>
    ELSE LET va == Head(rows)
             rest == joined_rows(Tail(rows), mem_sid)
         IN IF /\ va.session_id = mem_sid
               /\ \E v \in Verses : v.id = va.verse_id
            THEN <<join_verse(va)>> \o rest
            ELSE rest

\* ORDER BY v.number: rows of the same number stay in row id order
RECURSIVE insert_by_number(_, _)
insert_by_number(sorted, row) ==
    IF sorted = <<>> THEN <<row>>
    ELSE IF row.number < Head(sorted).number THEN <<row>> \o sorted
    ELSE <<Head(sorted)>> \o insert_by_number(Tail(sorted), row)

RECURSIVE order_by_number(_)
order_by_number(rows) ==
    IF rows = <<>> THEN <<>>
    ELSE insert_by_number(order_by_number(SubSeq(rows, 1, Len(rows) - 1)),
                          rows[Len(rows)])

\* SELECT va.*, v.content AS expected, v.number FROM verse_attempts va
\* JOIN verses v ON v.id = va.verse_id WHERE va.session_id = ?
\* ORDER BY v.number
attempts_of(mem_sid) == order_by_number(joined_rows(verse_attempts, mem_sid))

\* report: the list `diffs`, one entry per attempt in the order of the query
diffs_of(attempts) ==
    [n \in 1..Len(attempts) |->
        [number |-> attempts[n].number,
         expected |-> attempts[n].expected,
         user_input |-> attempts[n].user_input,
         score |-> score_pct(attempts[n].similarity),
         diff_html |-> build_diff_html(attempts[n].expected,
                                       attempts[n].user_input)]]

\* report once the session is known to have attempts
report_finalise(mem_sid, attempts) ==
    LET avg_score == avg_score_of(attempts)
        grade == score_to_grade(avg_score * 100)
    IN /\ memorization_sessions' =
             [memorization_sessions EXCEPT ![mem_sid] =
                 [@ EXCEPT !.completed_at = "utcnow",
                           !.total_score = {avg_score},
                           !.grade = grade]]
       /\ session' = [k \in DOMAIN session \ {"mem_session_id", "chapter_id",
                                               "verse_index"} |-> session[k]]
       /\ response' = [Resp("render", "report.html", "none")
                       EXCEPT !.avg_score = {avg_score}, !.grade = grade,
                              !.diffs = diffs_of(attempts)]
       /\ UNCHANGED verse_attempts

\* report with the empty session finalised at a score of zero
report_zero_when_empty ==
    /\ request' = Req("report", "GET", FALSE)
    /\ IF ~Has("user_id") THEN PleaseLogIn
       ELSE IF ~Has("mem_session_id")
       THEN /\ response' = Resp("redirect", "index", "none")
            /\ UNCHANGED <<session, memorization_sessions, verse_attempts>>
       ELSE LET mem_sid == session["mem_session_id"]
                attempts == attempts_of(mem_sid)
                zero == <<[number |-> 0, expected |-> <<>>,
                           user_input |-> <<>>,
                           similarity |-> [num |-> 0, den |-> 1]]>>
            IN report_finalise(mem_sid,
                               IF attempts = <<>> THEN zero ELSE attempts)
    /\ UNCHANGED textVars
    /\ UNCHANGED gradeVars
report ==
    /\ request' = Req("report", "GET", FALSE)
    /\ IF ~Has("user_id") THEN PleaseLogIn
       ELSE IF ~Has("mem_session_id")
       THEN /\ response' = Resp("redirect", "index", "none")
            /\ UNCHANGED <<session, memorization_sessions, verse_attempts>>
       ELSE LET mem_sid == session["mem_session_id"]
                attempts == attempts_of(mem_sid)
            IN IF attempts = <<>>
               THEN /\ response' = Resp("redirect", "index",
                                        "No attempts found.")
                    /\ UNCHANGED <<session, memorization_sessions,
                                   verse_attempts>>
               ELSE report_finalise(mem_sid, attempts)
    /\ UNCHANGED textVars
    /\ UNCHANGED gradeVars

NextWeb ==
    \/ \E ok \in BOOLEAN : login(ok)
    \/ logout
    \/ \E chapter_id \in ChapterIds : start_session(chapter_id)
    \/ verse_page("GET", <<>>, FALSE)
    \/ \E input \in WebInputs, next \in BOOLEAN :
          verse_page("POST", input, next)
    \/ report

WebSpec == InitWeb /\ [][NextWeb]_vars

\* ===================================================== properties: text
\* the token sequences the two helpers work on
ExpectedWords == split(normalize(expected))
TypedWords == split(normalize(user_input))
ExpectedTokens == split(lower(normalize(expected)))
TypedTokens == split(lower(normalize(user_input)))

RECURSIVE ConcatSpans(_, _, _)
\* the spans of `ws` named by the opcodes from the k-th on, concatenated;
\* side is "a" for the i-ranges and "b" for the j-ranges
ConcatSpans(ws, side, k) ==
    IF k > Len(opcodes) THEN <<>>
    ELSE LET lo == IF side = "a" THEN opcodes[k].i1 ELSE opcodes[k].j1
             hi == IF side = "a" THEN opcodes[k].i2 ELSE opcodes[k].j2
         IN SubSeq(ws, lo + 1, hi) \o ConcatSpans(ws, side, k + 1)

\* C1: the opcodes build_diff_html runs over are ordered and contiguous in
\* both token sequences: the first starts at 0 and 0, each starts where the
\* one before it ended, the last ends at len(a) and len(b), and the a-spans
\* (b-spans) concatenated in order are a (b).
PartitionC1 ==
    tphase = "scored" =>
        LET n == Len(opcodes)
        IN /\ n = 0 => ExpectedWords = <<>> /\ TypedWords = <<>>
           /\ n > 0 =>
                 /\ opcodes[1].i1 = 0 /\ opcodes[1].j1 = 0
                 /\ opcodes[n].i2 = Len(ExpectedWords)
                 /\ opcodes[n].j2 = Len(TypedWords)
           /\ \A k \in 1..n :
                 /\ opcodes[k].i1 <= opcodes[k].i2
                 /\ opcodes[k].j1 <= opcodes[k].j2
                 /\ opcodes[k].tag \in {"equal", "replace", "delete", "insert"}
           /\ \A k \in 1..(n - 1) :
                 /\ opcodes[k + 1].i1 = opcodes[k].i2
                 /\ opcodes[k + 1].j1 = opcodes[k].j2
           /\ ConcatSpans(ExpectedWords, "a", 1) = ExpectedWords
           /\ ConcatSpans(TypedWords, "b", 1) = TypedWords

\* a comparison whose opcodes are an equal block, a gap and a trailing gap
WitnessC1 ==
    /\ tphase = "scored"
    /\ Len(opcodes) >= 3
    /\ opcodes[Len(opcodes)].tag # "equal"
    /\ \E k \in 1..Len(opcodes) : opcodes[k].tag = "equal"

\* the typed tokens with the one at position j (from 0) replaced by the
\* expected token at that position, as a string
Corrected(j) ==
    join([n \in 1..Len(TypedTokens) |->
             IF n = j + 1 THEN ExpectedTokens[n] ELSE TypedTokens[n]])

WrongAt(j) ==
    /\ j < Len(ExpectedTokens)
    /\ j < Len(TypedTokens)
    /\ ExpectedTokens[j + 1] # TypedTokens[j + 1]

OnlyErrorAt(j) ==
    /\ WrongAt(j)
    /\ Len(ExpectedTokens) = Len(TypedTokens)
    /\ \A n \in 1..Len(ExpectedTokens) :
          n # j + 1 => ExpectedTokens[n] = TypedTokens[n]

\* C2 as stated: replacing any one wrong word of the typed text by the
\* expected word at its position never lowers the ratio.
MonotoneC2 ==
    tphase = "scored" =>
        \A j \in 0..Len(TypedTokens) :
            WrongAt(j) =>
                FracLE(sim, similarity_score(expected, Corrected(j)))

\* C2 amended: when the wrong word is the only difference between the typed
\* and the expected tokens, replacing it gives the ratio 1.0, which is not
\* below the ratio before.
MonotoneLastErrorC2 ==
    tphase = "scored" =>
        \A j \in 0..Len(TypedTokens) :
            OnlyErrorAt(j) =>
                /\ similarity_score(expected, Corrected(j)) = One
                /\ FracLE(sim, similarity_score(expected, Corrected(j)))

\* three expected words, the middle one typed wrong and nothing else
WitnessC2 ==
    /\ tphase = "scored"
    /\ Len(ExpectedTokens) = 3
    /\ OnlyErrorAt(1)
    /\ FracLT(sim, One)

\* C3 as stated: an empty submission scores below 1.0 against every
\* expected string that is not the empty string.
EmptyInputC3 ==
    (tphase = "scored" /\ expected # <<>> /\ user_input = <<>>) =>
        FracLT(sim, One)

\* C3 amended: an empty submission scores below 1.0 against every expected
\* string that normalizes to at least one token.
EmptyInputTokensC3 ==
    (tphase = "scored" /\ ExpectedTokens # <<>> /\ user_input = <<>>) =>
        FracLT(sim, One)

\* an empty submission scored against two expected words
WitnessC3 ==
    /\ tphase = "scored"
    /\ Len(ExpectedTokens) = 2
    /\ user_input = <<>>
    /\ sim = [num |-> 0, den |-> 1]

\* the number of segments the opcodes before the k-th have produced
RECURSIVE SegmentsBefore(_)
SegmentsBefore(k) ==
    IF k <= 1 THEN 0
    ELSE SegmentsBefore(k - 1)
         + (opcodes[k - 1].i2 - opcodes[k - 1].i1)
         + (IF opcodes[k - 1].tag = "equal" THEN 0
            ELSE opcodes[k - 1].j2 - opcodes[k - 1].j1)

Seg(cls, w) == [cls |-> cls, w |-> w]

\* the segments of the k-th opcode are those of its tag
SegmentsOf(k) ==
    LET op == opcodes[k]
        at == SegmentsBefore(k)
        na == op.i2 - op.i1
        nb == op.j2 - op.j1
    IN /\ op.tag = "equal" =>
             \A n \in 1..na :
                 parts[at + n] = Seg("diff-ok", ExpectedWords[op.i1 + n])
       /\ op.tag \in {"delete", "replace"} =>
             \A n \in 1..na :
                 parts[at + n] = Seg("diff-missing", ExpectedWords[op.i1 + n])
       /\ op.tag = "replace" =>
             \A n \in 1..nb :
                 parts[at + na + n] = Seg("diff-extra", TypedWords[op.j1 + n])
       /\ op.tag = "insert" =>
             \A n \in 1..nb :
                 parts[at + n] = Seg("diff-extra", TypedWords[op.j1 + n])

Classes(ps) == [n \in 1..Len(ps) |-> ps[n].cls]
WordsOf(ps) == [n \in 1..Len(ps) |-> ps[n].w]

\* C6: the segments follow the opcodes from left to right, an equal opcode
\* giving one ok segment per expected token, a delete one missing per
\* expected token, an insert one extra per typed token, a replace all its
\* missing and then all its extra segments; the ok and missing segments in
\* order are the expected tokens, and there are as many ok and extra
\* segments as typed tokens; "the quick brown fox" against "the quick red
\* fox" gives ok, ok, missing(brown), extra(red), ok.
DiffSegmentsC6 ==
    tphase = "scored" =>
        /\ Len(parts) = SegmentsBefore(Len(opcodes) + 1)
        /\ \A k \in 1..Len(opcodes) : SegmentsOf(k)
        /\ WordsOf(SelectSeq(parts,
                LAMBDA p : p.cls \in {"diff-ok", "diff-missing"}))
              = ExpectedWords
        /\ Len(SelectSeq(parts,
                LAMBDA p : p.cls \in {"diff-ok", "diff-extra"}))
              = Len(TypedWords)
        /\ (expected = QuickBrownFox /\ user_input = QuickRedFox) =>
              /\ Classes(parts) = <<"diff-ok", "diff-ok", "diff-missing",
                                    "diff-extra", "diff-ok">>
              /\ parts[3].w = <<"b", "r", "o", "w", "n">>
              /\ parts[4].w = <<"r", "e", "d">>

\* the diff of the example pair, which has a replace opcode
WitnessC6 ==
    /\ tphase = "scored"
    /\ expected = QuickBrownFox
    /\ user_input = QuickRedFox
    /\ \E k \in 1..Len(opcodes) : opcodes[k].tag = "replace"
    /\ Len(parts) = 5

\* C7: when expected and typed text give the same case-folded tokens, the
\* ratio is exactly 1.0, every diff segment is ok, and the percentage 100.0
\* has the grade A+.
ExactMatchC7 ==
    (tphase = "scored" /\ ExpectedTokens = TypedTokens) =>
        /\ sim = One
        /\ \A n \in 1..Len(parts) : parts[n].cls = "diff-ok"
        /\ Len(parts) = Len(ExpectedTokens)
        /\ score_pct(sim) = 1000
        /\ score_to_grade(score_pct(sim) * 100) = "A+"

\* two different strings with the same tokens: case and spacing differ
WitnessC7 ==
    /\ tphase = "scored"
    /\ ExpectedTokens = TypedTokens
    /\ ExpectedTokens # <<>>
    /\ expected # user_input
    /\ sim = One

\* C8: when the expected text normalizes to no token at all, the ratio is
\* exactly 1.0 whatever was typed.
EmptyExpectedC8 ==
    (tphase = "scored" /\ ExpectedTokens = <<>>) => sim = One

\* a whitespace-only expected text scored against a typed word
WitnessC8 ==
    /\ tphase = "scored"
    /\ expected # <<>>
    /\ ExpectedTokens = <<>>
    /\ TypedTokens # <<>>
    /\ sim = One

\* =================================================== properties: grades
InRange(p) == 0 <= p /\ p <= Pct(100)

Grades == {"A+", "A", "A-", "B+", "B", "B-", "C+", "C", "C-", "D", "F"}

\* the thresholds in whole percent, with the grade each one starts
GradeTable ==
    {<<97, "A+">>, <<93, "A">>, <<90, "A-">>, <<87, "B+">>, <<83, "B">>,
     <<80, "B-">>, <<77, "C+">>, <<73, "C">>, <<70, "C-">>, <<60, "D">>}

\* the grade of the greatest threshold not above p, F when there is none
TableGrade(p) ==
    LET reached == {t \in GradeTable : Pct(t[1]) <= p}
    IN IF reached = {} THEN "F"
       ELSE (CHOOSE t \in reached : \A u \in reached : u[1] <= t[1])[2]

\* the threshold a grade starts at; F starts at 0
GradeFloor(g) ==
    IF g = "F" THEN 0 ELSE (CHOOSE t \in GradeTable : t[2] = g)[1]

\* C9: for every percentage in [0, 100] score_to_grade returns the grade
\* of the greatest threshold not above it, F below 60; a higher percentage
\* never has a lower grade; 93.0 is A, 92.999 is A-, 60.0 is D, 59.9 is F.
StepFunctionC9 ==
    (graded # NoGrade /\ InRange(score)) =>
        /\ graded.grade \in Grades
        /\ graded.grade = TableGrade(score)
        /\ ~graded.raised
        /\ \A q \in GradeInputs :
              (InRange(q) /\ q <= score) =>
                  GradeFloor(score_to_grade(q)) <= GradeFloor(graded.grade)
        /\ score = Pct(93) => graded.grade = "A"
        /\ score = Pct(93) - 1 => graded.grade = "A-"
        /\ score = Pct(60) => graded.grade = "D"
        /\ score = Pct(60) - 100 => graded.grade = "F"

\* 92.999 graded A-
WitnessC9 ==
    /\ score = Pct(93) - 1
    /\ graded.grade = "A-"

\* C4: a percentage below 0 or above 100 is rejected by the call, or the
\* value the thresholds are tested against has been brought into [0, 100].
OutOfRangeC4 ==
    (graded # NoGrade /\ ~InRange(score)) =>
        graded.raised \/ InRange(graded.tested)

\* ====================================================== properties: web
InPractice == Has("mem_session_id")
VerseCount == Len(verses_of(session["chapter_id"]))

\* C5: when report runs for a session without attempts, no average and no
\* grade are computed, the client is warned and redirected, and the row of
\* the session stays as it was, with completed_at, total_score and grade
\* unset.
EmptyReportC5 ==
    [][ (/\ request'.handler = "report"
         /\ Has("user_id")
         /\ InPractice
         /\ attempts_of(session["mem_session_id"]) = <<>>)
        =>
        (/\ response' = Resp("redirect", "index", "No attempts found.")
         /\ memorization_sessions' = memorization_sessions
         /\ LET row == memorization_sessions'[session["mem_session_id"]]
            IN /\ row.completed_at = NULL
               /\ row.total_score = {}
               /\ row.grade = NULL
         /\ verse_attempts' = verse_attempts
         /\ session' = session) ]_vars

\* report has warned about a session without attempts while another
\* session has attempts
WitnessC5 ==
    /\ request.handler = "report"
    /\ response.flash = "No attempts found."
    /\ InPractice
    /\ verse_attempts # <<>>

\* the practice session: the same mem_session_id before and after the step
SamePractice ==
    /\ InPractice
    /\ "mem_session_id" \in DOMAIN session'
    /\ session'["mem_session_id"] = session["mem_session_id"]

StartedC10 ==
    (request.handler = "start_session" /\ response.target = "verse_page") =>
        /\ InPractice
        /\ session["verse_index"] = 0

BoundedC10 ==
    InPractice =>
        /\ 0 <= session["verse_index"]
        /\ session["verse_index"] <= VerseCount

StepC10 ==
    /\ SamePractice =>
          /\ session'["verse_index"] >= session["verse_index"]
          /\ session'["verse_index"] # session["verse_index"] =>
                /\ request' = Req("verse_page", "POST", TRUE)
                /\ session'["verse_index"] = session["verse_index"] + 1
    /\ (/\ request' = Req("verse_page", "POST", TRUE)
        /\ InPractice
        /\ session["verse_index"] < VerseCount)
       => /\ SamePractice
          /\ session'["verse_index"] = session["verse_index"] + 1
    /\ (/\ request'.handler = "verse_page"
        /\ request'.method = "POST"
        /\ InPractice
        /\ session["verse_index"] < VerseCount)
       => /\ Len(verse_attempts') = Len(verse_attempts) + 1
          /\ SubSeq(verse_attempts', 1, Len(verse_attempts)) = verse_attempts
          /\ LET row == verse_attempts'[Len(verse_attempts')]
                 verse == verses_of(session["chapter_id"])
                              [session["verse_index"] + 1]
             IN /\ row.session_id = session["mem_session_id"]
                /\ row.verse_id = verse.id
    /\ (/\ request'.handler = "verse_page"
        /\ InPractice
        /\ session["verse_index"] = VerseCount)
       => /\ verse_attempts' = verse_attempts
          /\ session' = session
          /\ response' = Resp("redirect", "report", "none")

\* C10: within one practice session verse_index is 0 right after
\* start_session, changes only in a verse_page POST that carries "next" and
\* then by exactly +1, never decreases and never exceeds the number of
\* verses of the chapter; a verse_page POST handled while verse_index is
\* below the number of verses inserts exactly one verse_attempts row, for
\* the verse at verse_index; at verse_index equal to the number of verses
\* verse_page records nothing and redirects to report.
ProgressionC10 == [](StartedC10 /\ BoundedC10) /\ [][StepC10]_vars

\* every verse of chapter 1 has been passed and verse_page has redirected
\* to report
WitnessC10 ==
    /\ InPractice
    /\ session["chapter_id"] = 1
    /\ session["verse_index"] = 2
    /\ Len(verse_attempts) >= 2
    /\ request.handler = "verse_page"
    /\ response.target = "report"

====
